---- MODULE Spec2Model ----
(***************************************************************************)
(* Pair construction of PodcastPreferences.ipynb: thresholding of the      *)
(* normalised ratings, construction of the similar pairs, and the          *)
(* rejection sampler get_dissimilar_pair.                                  *)
(*                                                                         *)
(* Matrices are sequences of rows and rows are sequences of cells.  The    *)
(* source indexes podcasts from 0; At(row, i) reads the cell of the        *)
(* 0-based index i.  Normalised ratings are kept in hundredths, so the     *)
(* threshold 0.17 is the integer 17.                                       *)
(***************************************************************************)
EXTENDS Integers, Sequences, FiniteSets, TLC

\* ---------------------------------------------------------------- bounds
\* The notebook runs with num_people = 1000 and num_pods = 200; the model
\* ranges over every size from 1 up to these bounds (normalize rejects a
\* matrix without rows or without columns, so no smaller size gets this far).
MaxPeople == 2
MaxPods == 3
\* Only inputs that give at most this many similar pairs are run, which bounds
\* the number of iterations of the for loop.
MaxPairs == 4

\* ------------------------------------------------------ program constants
threshold == 17
RetryCap == 1000

\* Normalised ratings (hundredths) a cell may hold: beyond the threshold on
\* either side, and exactly on it on either side.
Levels == <<-18, -17, 17, 18>>

\* the value of a name that has not been assigned
None == 0 - 1

VARIABLES
  seed,                     \* argument of np.random.seed
  num_people, num_pods,     \* configuration
  normed,                   \* normalised affinity matrix
  liked, disliked,
  multiprefs_liked, multiprefs_disliked,
  both, contains_similar,
  potential_similar_pairs, unique_similar_pairs,
  potential_dissimilar_pairs,
  Xs, labels,               \* the pairs and their labels, similar first
  train_size,
  shuffled,                 \* list(zip(Xs, labels)), then shuffled
  train, test,
  train_Xs, train_ys, test_Xs, test_ys,
  chosen_person,            \* the row random.choices returned
  resample, attempts,
  first_pod_ix, second_pod_ix,
  first_pod_polarity, second_pod_polarity,
  printed,                  \* the diagnostic note has been printed in this call
  pc,                       \* position in the notebook
  chosen_ix,                \* history: index of the row chosen_person
  calls,                    \* history: calls of get_dissimilar_pair so far
  draws,                    \* history: draws made by the current call
  prev                      \* history: the outputs of the previous run

config == <<seed, num_people, num_pods>>
data == <<normed, liked, disliked, multiprefs_liked, multiprefs_disliked,
          both, contains_similar>>
pairs == <<potential_similar_pairs, unique_similar_pairs,
           potential_dissimilar_pairs>>
sampler == <<chosen_person, resample, attempts, first_pod_ix, second_pod_ix,
             first_pod_polarity, second_pod_polarity, printed, chosen_ix, draws>>
split == <<Xs, labels, train_size, shuffled, train, test,
           train_Xs, train_ys, test_Xs, test_ys>>
vars == <<config, data, pairs, sampler, split, pc, calls, prev, split>>

\* ---------------------------------------------------------------- helpers
RECURSIVE Pow(_, _)
Pow(b, e) == IF e = 0 THEN 1 ELSE b * Pow(b, e - 1)

RECURSIVE SumSeq(_)
SumSeq(s) == IF s = <<>> THEN 0 ELSE Head(s) + SumSeq(Tail(s))

RECURSIVE Concat(_)
Concat(ss) == IF ss = <<>> THEN <<>> ELSE Head(ss) \o Concat(Tail(ss))

SeqRange(s) == {s[k] : k \in DOMAIN s}

At(row, i) == row[i + 1]

\* The rating generator and the normalisation.  numpy's generator is seeded,
\* so the matrix is a function of the seed and the sizes; the function is
\* chosen so that the seeds of one configuration give every matrix over Levels.
Gen(s, P, N) ==
  [p \in 1..P |->
    [i \in 1..N |->
      Levels[((s \div Pow(Len(Levels), (p - 1) * N + (i - 1))) % Len(Levels)) + 1]]]

NumSeeds(P, N) == Pow(Len(Levels), P * N)

\* normed >= threshold in place of normed > threshold
LikedInclusive(m) ==
  [p \in DOMAIN m |-> [i \in DOMAIN m[p] |-> IF m[p][i] >= threshold THEN 1 ELSE 0]]

\* (normed > threshold).astype(int) and (normed < -threshold).astype(int)
Liked(m) == [p \in DOMAIN m |-> [i \in DOMAIN m[p] |-> IF m[p][i] > threshold THEN 1 ELSE 0]]
Disliked(m) == [p \in DOMAIN m |-> [i \in DOMAIN m[p] |-> IF m[p][i] < -threshold THEN 1 ELSE 0]]

\* m.sum(axis=1) > 2 in place of m.sum(axis=1) > 1
MultiPrefsStrict(m) == [p \in DOMAIN m |-> SumSeq(m[p]) > 2]

\* m.sum(axis=1) > 1
MultiPrefs(m) == [p \in DOMAIN m |-> SumSeq(m[p]) > 1]

\* disliked[disliked > 0] = -1
Negate(m) == [p \in DOMAIN m |-> [i \in DOMAIN m[p] |-> IF m[p][i] > 0 THEN -1 ELSE m[p][i]]]

\* liked + disliked, elementwise
MatAdd(a, b) == [p \in DOMAIN a |-> [i \in DOMAIN a[p] |-> a[p][i] + b[p][i]]]

\* the sum of two boolean arrays is their elementwise or
BoolAdd(a, b) == [p \in DOMAIN a |-> a[p] \/ b[p]]

\* m[mask]: the rows whose mask is set, in row order
RECURSIVE Masked(_, _)
Masked(m, mask) ==
  IF m = <<>> THEN <<>>
  ELSE (IF Head(mask) THEN <<Head(m)>> ELSE <<>>) \o Masked(Tail(m), Tail(mask))

\* np.where(row == v)[0]: the 0-based indices holding v, ascending
RECURSIVE WhereFrom(_, _, _)
WhereFrom(row, v, k) ==
  IF k > Len(row) THEN <<>>
  ELSE (IF row[k] = v THEN <<k - 1>> ELSE <<>>) \o WhereFrom(row, v, k + 1)

Where(row, v) == WhereFrom(row, v, 1)

\* list(product(s, s)) in place of list(permutations(s, 2))
Product2(s) ==
  LET n == Len(s)
  IN  [k \in 1..(n * n) |-> <<s[((k - 1) \div n) + 1], s[((k - 1) % n) + 1]>>]

\* list(combinations(s, 2)) in place of list(permutations(s, 2))
Combinations2(s) ==
  LET n == Len(s)
      up == [a \in 1..n |-> [b \in 1..(n - a) |-> <<s[a], s[a + b]>>]]
  IN  Concat(up)

\* list(permutations(s, 2)): ordered pairs of two different positions of s,
\* in lexicographic order of the positions
Permutations2(s) ==
  LET n == Len(s)
  IN  [k \in 1..(n * (n - 1)) |->
        LET a == ((k - 1) \div (n - 1)) + 1
            r == ((k - 1) % (n - 1)) + 1
            b == IF r < a THEN r ELSE r + 1
        IN  <<s[a], s[b]>>]

\* the body of "for person in rows: pairs += list(permutations(np.where(person == v)[0], 2))"
PairsOf(rows, v) == Concat([k \in DOMAIN rows |-> Permutations2(Where(rows[k], v))])

\* ------------------------------------------------- get_dissimilar_pair
\* first_pod_polarity = chosen_person[first_pod_ix]
FirstPolarity(person, i, j) == At(person, i)

\* chosen_person[second_pod_ix] in place of chosen_person[first_pod_ix]
SecondPolarityOfSecond(person, i, j) == At(person, j)

\* second_pod_polarity = chosen_person[first_pod_ix]
SecondPolarity(person, i, j) == At(person, i)

\* first_pod_polarity == second_pod_polarity in place of == -second_pod_polarity
AcceptSameSign(fp, sp) == fp = 0 \/ sp = 0 \/ fp = sp

\* first_pod_polarity == second_pod_polarity as the whole test
AcceptAnyEqual(fp, sp) == fp = sp

\* first_pod_polarity == 0 or second_pod_polarity == 0
\*   or first_pod_polarity == -second_pod_polarity
Accept(fp, sp) == fp = 0 \/ sp = 0 \/ fp = -sp

\* elif attempts > 1000
CapReached(a) == a > RetryCap

\* the loop body assigns nothing to attempts
AttemptsAfter(a) == a

\* range(len(potential_similar_pairs) + 1)
NumCallsPlusOne(ps) == Len(ps) + 1

\* range(max(1, len(potential_similar_pairs)))
NumCallsAtLeastOne(ps) == IF Len(ps) = 0 THEN 1 ELSE Len(ps)

\* range(len(potential_similar_pairs)): the number of sampling calls
NumCalls(ps) == Len(ps)

\* append only a pair the list does not hold yet
AppendPairUnique(ps, pair) == IF pair \in SeqRange(ps) THEN ps ELSE Append(ps, pair)

\* potential_dissimilar_pairs.append(dissimilar_pair)
AppendPair(ps, pair) == Append(ps, pair)

\* two indices drawn with replacement, the second allowed to be num_pods
SamplesLoose(N) == (0..(N - 1)) \X (0..N)

\* random.sample(range(num_pods), 2): two different indices, in either order
Samples(N) == {d \in (0..(N - 1)) \X (0..(N - 1)) : d[1] # d[2]}

\* The polarity matrix and the similar pairs of a normalised matrix, as the
\* cells of the notebook compute them one after the other.
BothOf(m) == MatAdd(Liked(m), Negate(Disliked(m)))

SimilarOf(m) ==
  PairsOf(Masked(BothOf(m), MultiPrefs(Liked(m))), 1)
    \o PairsOf(Masked(BothOf(m), MultiPrefs(Disliked(m))), -1)

\* ------------------------------------------------------- shuffle and split
\* the elements of a set of pairs in lexicographic order
RECURSIVE LexSeq(_)
LexSeq(T) ==
  IF T = {} THEN <<>>
  ELSE LET m == CHOOSE x \in T :
                  \A y \in T : x[1] < y[1] \/ (x[1] = y[1] /\ x[2] <= y[2])
       IN  <<m>> \o LexSeq(T \ {m})

\* list(unique_similar_pairs) in place of potential_similar_pairs
SimilarDeduped(raw) == LexSeq(SeqRange(raw))

\* similar = potential_similar_pairs
similar(raw) == raw

RemoveAt(s, k) == SubSeq(s, 1, k - 1) \o SubSeq(s, k + 1, Len(s))

\* a shuffle that copies one element over another
ShufflesOverwriting(s) ==
  {[s EXCEPT ![i] = s[j]] : i \in DOMAIN s, j \in DOMAIN s}

\* random.shuffle(s): the orders the list can be left in
RECURSIVE Shuffles(_)
Shuffles(s) ==
  IF s = <<>> THEN {<<>>}
  ELSE LET Heads == {k \in DOMAIN s : \A j \in 1..(k - 1) : s[j] # s[k]}
       IN UNION {{<<s[k]>> \o t : t \in Shuffles(RemoveAt(s, k))} : k \in Heads}

\* [1 for x in similar] + [0 for x in dissimilar]
Labels(sim, dis) == [k \in 1..(Len(sim) + Len(dis)) |-> IF k <= Len(sim) THEN 1 ELSE 0]

\* list(zip(xs, ys))
Zip(xs, ys) == [k \in 1..Len(xs) |-> <<xs[k], ys[k]>>]

\* 0.75 of n rounded up in place of down
TrainSizeCeil(n) == (n * 75 + 99) \div 100

\* int(n * 0.75)
TrainSize(n) == (n * 75) \div 100

\* s[0:k] and s[k:]
Take(s, k) == SubSeq(s, 1, k)
Drop(s, k) == SubSeq(s, k + 1, Len(s))

\* [x[0] for x in s] and [x[1] for x in s]
FirstsOf(s) == [k \in DOMAIN s |-> s[k][1]]
SecondsOf(s) == [k \in DOMAIN s |-> s[k][2]]

\* ------------------------------------------------------------------ Init
NoData == <<>>

SamplerIdle ==
  /\ chosen_person = <<>> /\ chosen_ix = None
  /\ resample = FALSE /\ attempts = None
  /\ first_pod_ix = None /\ second_pod_ix = None
  /\ first_pod_polarity = None /\ second_pod_polarity = None
  /\ printed = FALSE /\ draws = 0

SplitIdle ==
  /\ Xs = <<>> /\ labels = <<>> /\ train_size = None /\ shuffled = <<>>
  /\ train = <<>> /\ test = <<>>
  /\ train_Xs = <<>> /\ train_ys = <<>> /\ test_Xs = <<>> /\ test_ys = <<>>

Fresh ==
  /\ normed = NoData /\ liked = NoData /\ disliked = NoData
  /\ multiprefs_liked = NoData /\ multiprefs_disliked = NoData
  /\ both = NoData /\ contains_similar = NoData
  /\ potential_similar_pairs = <<>> /\ unique_similar_pairs = {}
  /\ potential_dissimilar_pairs = <<>>
  /\ SamplerIdle
  /\ SplitIdle
  /\ calls = 0
  /\ pc = "start"

Init ==
  /\ num_people \in 1..MaxPeople
  /\ num_pods \in 1..MaxPods
  /\ seed \in 0..(NumSeeds(num_people, num_pods) - 1)
  /\ Len(SimilarOf(Gen(seed, num_people, num_pods))) <= MaxPairs
  /\ prev = <<>>
  /\ Fresh

\* --------------------------------------------------------------- actions
\* np.random.seed; prefs, pod_attrs, final; normed = normalize(final)
Generate ==
  /\ pc = "start"
  /\ normed' = Gen(seed, num_people, num_pods)
  /\ pc' = "threshold"
  /\ UNCHANGED <<config, liked, disliked, multiprefs_liked, multiprefs_disliked,
                 both, contains_similar, pairs, sampler, calls, prev, split>>

Threshold ==
  /\ pc = "threshold"
  /\ liked' = Liked(normed)
  /\ disliked' = Disliked(normed)
  /\ multiprefs_liked' = MultiPrefs(liked')
  /\ multiprefs_disliked' = MultiPrefs(disliked')
  /\ pc' = "polarity"
  /\ UNCHANGED <<config, normed, both, contains_similar, pairs, sampler, calls, prev, split>>

Polarity ==
  /\ pc = "polarity"
  /\ disliked' = Negate(disliked)
  /\ both' = MatAdd(liked, disliked')
  /\ contains_similar' = BoolAdd(multiprefs_liked, multiprefs_disliked)
  /\ potential_similar_pairs' = <<>>
  /\ pc' = "similar_liked"
  /\ UNCHANGED <<config, normed, liked, multiprefs_liked, multiprefs_disliked,
                 unique_similar_pairs, potential_dissimilar_pairs, sampler, calls, prev, split>>

SimilarLiked ==
  /\ pc = "similar_liked"
  /\ potential_similar_pairs' =
       potential_similar_pairs \o PairsOf(Masked(both, multiprefs_liked), 1)
  /\ pc' = "similar_disliked"
  /\ UNCHANGED <<config, data, unique_similar_pairs, potential_dissimilar_pairs,
                 sampler, calls, prev, split>>

SimilarDisliked ==
  /\ pc = "similar_disliked"
  /\ potential_similar_pairs' =
       potential_similar_pairs \o PairsOf(Masked(both, multiprefs_disliked), -1)
  /\ unique_similar_pairs' = SeqRange(potential_similar_pairs')
  /\ potential_dissimilar_pairs' = <<>>
  /\ pc' = "for"
  /\ UNCHANGED <<config, data, sampler, calls, prev, split>>

\* one more iteration of the for loop: get_dissimilar_pair is entered.
\* random.choices and random.sample draw from the standard library's
\* generator, which the notebook never seeds (np.random.seed seeds numpy's
\* only), so every draw is a free choice.
CallSampler ==
  /\ pc = "for"
  /\ calls < NumCalls(potential_similar_pairs)
  /\ \E p \in 1..Len(both) :
       /\ chosen_person' = both[p]
       /\ chosen_ix' = p - 1
  /\ resample' = TRUE
  /\ attempts' = 0
  /\ first_pod_ix' = None /\ second_pod_ix' = None
  /\ first_pod_polarity' = None /\ second_pod_polarity' = None
  /\ printed' = FALSE
  /\ draws' = 0
  /\ calls' = calls + 1
  /\ pc' = "while"
  /\ UNCHANGED <<config, data, pairs, prev, split>>

\* one iteration of the while loop; random.sample raises when fewer than two
\* podcasts exist
DrawBody ==
  /\ pc = "while"
  /\ resample
  /\ IF num_pods < 2
     THEN /\ pc' = "error"
          /\ UNCHANGED <<chosen_person, resample, attempts, first_pod_ix,
                         second_pod_ix, first_pod_polarity, second_pod_polarity,
                         printed, chosen_ix>>
     ELSE /\ \E d \in Samples(num_pods) :
               /\ first_pod_ix' = d[1]
               /\ second_pod_ix' = d[2]
               /\ first_pod_polarity' = FirstPolarity(chosen_person, d[1], d[2])
               /\ second_pod_polarity' = SecondPolarity(chosen_person, d[1], d[2])
          /\ IF Accept(first_pod_polarity', second_pod_polarity')
             THEN resample' = FALSE /\ printed' = printed
             ELSE IF CapReached(attempts)
                  THEN resample' = FALSE /\ printed' = TRUE
                  ELSE resample' = resample /\ printed' = printed
          /\ attempts' = AttemptsAfter(attempts)
          /\ pc' = pc
          /\ UNCHANGED <<chosen_person, chosen_ix>>
  /\ UNCHANGED <<config, data, pairs, calls, prev, split>>

\* return (first_pod_ix, second_pod_ix), appended by the for loop
ReturnPair ==
  /\ pc = "while"
  /\ ~resample
  /\ potential_dissimilar_pairs' =
       AppendPair(potential_dissimilar_pairs, <<first_pod_ix, second_pod_ix>>)
  /\ pc' = "for"
  /\ UNCHANGED <<config, data, potential_similar_pairs, unique_similar_pairs,
                 sampler, calls, prev, split>>

\* the for loop is exhausted: the pair construction cell has completed
EndFor ==
  /\ pc = "for"
  /\ ~(calls < NumCalls(potential_similar_pairs))
  /\ pc' = "pairs_done"
  /\ UNCHANGED <<config, data, pairs, sampler, calls, prev, split>>

\* the loop iteration, without and with the history count of the draws
Draw == DrawBody /\ UNCHANGED draws

DrawCounted ==
  /\ DrawBody
  /\ draws' = IF draws < RetryCap + 3 THEN draws + 1 ELSE draws

\* the notebook is run again from the top with the same seed and sizes
Rerun ==
  /\ pc = "pairs_done"
  /\ prev = <<>>
  /\ prev' = <<[normed |-> normed,
                similar |-> potential_similar_pairs,
                dissimilar |-> potential_dissimilar_pairs]>>
  /\ normed' = NoData /\ liked' = NoData /\ disliked' = NoData
  /\ multiprefs_liked' = NoData /\ multiprefs_disliked' = NoData
  /\ both' = NoData /\ contains_similar' = NoData
  /\ potential_similar_pairs' = <<>> /\ unique_similar_pairs' = {}
  /\ potential_dissimilar_pairs' = <<>>
  /\ chosen_person' = <<>> /\ chosen_ix' = None
  /\ resample' = FALSE /\ attempts' = None
  /\ first_pod_ix' = None /\ second_pod_ix' = None
  /\ first_pod_polarity' = None /\ second_pod_polarity' = None
  /\ printed' = FALSE /\ draws' = 0
  /\ calls' = 0
  /\ pc' = "start"
  /\ UNCHANGED <<config, split>>

\* random.shuffle(potential_dissimilar_pairs)
ShuffleDissimilar ==
  /\ pc = "pairs_done"
  /\ potential_dissimilar_pairs' \in Shuffles(potential_dissimilar_pairs)
  /\ pc' = "shuffle_similar"
  /\ UNCHANGED <<config, data, potential_similar_pairs, unique_similar_pairs,
                 sampler, split, calls, prev>>

\* random.shuffle(potential_similar_pairs)
ShuffleSimilar ==
  /\ pc = "shuffle_similar"
  /\ potential_similar_pairs' \in Shuffles(potential_similar_pairs)
  /\ pc' = "concatenate"
  /\ UNCHANGED <<config, data, unique_similar_pairs, potential_dissimilar_pairs,
                 sampler, split, calls, prev>>

\* similar, dissimilar, the labels, Xs, train_size and the zipped list
Concatenate ==
  /\ pc = "concatenate"
  /\ Xs' = similar(potential_similar_pairs) \o potential_dissimilar_pairs
  /\ labels' = Labels(similar(potential_similar_pairs), potential_dissimilar_pairs)
  /\ train_size' = TrainSize(Len(Xs'))
  /\ shuffled' = Zip(Xs', labels')
  /\ pc' = "shuffle_zipped"
  /\ UNCHANGED <<config, data, pairs, sampler, train, test,
                 train_Xs, train_ys, test_Xs, test_ys, calls, prev>>

\* random.shuffle(shuffled)
ShuffleZipped ==
  /\ pc = "shuffle_zipped"
  /\ shuffled' \in Shuffles(shuffled)
  /\ pc' = "split"
  /\ UNCHANGED <<config, data, pairs, sampler, Xs, labels, train_size, train, test,
                 train_Xs, train_ys, test_Xs, test_ys, calls, prev>>

\* train, test and their pairs and labels
Split ==
  /\ pc = "split"
  /\ train' = Take(shuffled, train_size)
  /\ test' = Drop(shuffled, train_size)
  /\ train_Xs' = FirstsOf(train')
  /\ train_ys' = SecondsOf(train')
  /\ test_Xs' = FirstsOf(test')
  /\ test_ys' = SecondsOf(test')
  /\ pc' = "split_done"
  /\ UNCHANGED <<config, data, pairs, sampler, Xs, labels, train_size, shuffled,
                 calls, prev>>

SplitStep ==
  \/ ShuffleDissimilar
  \/ ShuffleSimilar
  \/ Concatenate
  \/ ShuffleZipped
  \/ Split

Step ==
  \/ Generate
  \/ Threshold
  \/ Polarity
  \/ SimilarLiked
  \/ SimilarDisliked
  \/ CallSampler
  \/ ReturnPair
  \/ EndFor

Next == Step \/ Draw

Spec == Init /\ [][Next]_vars

\* The interpreter keeps executing, and a draw that the acceptance test
\* passes is eventually made whenever such a draw stays possible.
FairSpec == Spec /\ WF_vars(Next) /\ SF_vars(Draw /\ ~resample')

\* One person, with the draws of each call counted up to the retry cap.
InitOne == Init /\ num_people = 1

NextCap == Step \/ DrawCounted

SpecCap == InitOne /\ [][NextCap]_vars

\* One person, two runs one after the other.
NextRerun == Next \/ Rerun

SpecRerun == InitOne /\ [][NextRerun]_vars

\* The whole notebook up to the train and test lists, for one person.
NextSplit == Next \/ SplitStep

SpecSplit == InitOne /\ [][NextSplit]_vars

\* The same for two people who gave the same ratings, none of them negative
\* and none above the rating of an earlier podcast.
InitTwins ==
  /\ Init
  /\ num_people = 2
  /\ Gen(seed, num_people, num_pods)[1] = Gen(seed, num_people, num_pods)[2]
  /\ \A i \in 1..num_pods : Gen(seed, num_people, num_pods)[1][i] > 0
  /\ \A i \in 1..(num_pods - 1) :
       Gen(seed, num_people, num_pods)[1][i] >= Gen(seed, num_people, num_pods)[1][i + 1]

SpecTwins == InitTwins /\ [][NextSplit]_vars


\* ------------------------------------------------------------ properties
Pods == 0..(num_pods - 1)

LikesOf(p) == {i \in Pods : At(both[p], i) = 1}
DislikesOf(p) == {i \in Pods : At(both[p], i) = -1}

\* person p (a row number of both) has at least 2 likes or at least 2 dislikes
Qualifies(p) == Cardinality(LikesOf(p)) >= 2 \/ Cardinality(DislikesOf(p)) >= 2

BothReady == both # NoData

PoolEmpty == BothReady /\ \A p \in 1..Len(both) : ~Qualifies(p)

InCall == pc = "while"

\* the polarity the person chosen in the current call has for podcast i
ChosenPolarity(i) == At(both[chosen_ix + 1], i)

\* C1: within one call of get_dissimilar_pair no more than 1000 resample
\* attempts are made: after that the loop stops, prints the note and returns
\* the pair it holds, so the count of draws of a call never passes the cap.
C1_RetryCapBoundsDraws == draws <= RetryCap + 2

\* C2: dissimilar sampling always terminates: every call returns and the
\* pipeline reaches the point where all the dissimilar pairs are produced.
C2_SamplingTerminates ==
  <>(pc = "pairs_done"
       /\ Len(potential_dissimilar_pairs) = Len(potential_similar_pairs))

\* C3: when sampling has completed there are as many dissimilar pairs as
\* similar pairs, get_dissimilar_pair was called once per similar pair, and
\* every call that returned appended exactly one pair.
C3_OnePairPerCall ==
  /\ Len(potential_dissimilar_pairs) = (IF InCall THEN calls - 1 ELSE calls)
  /\ pc = "pairs_done" =>
       /\ Len(potential_dissimilar_pairs) = Len(potential_similar_pairs)
       /\ calls = Len(potential_similar_pairs)

C3_Witness ==
  /\ pc = "pairs_done"
  /\ Len(potential_dissimilar_pairs) = MaxPairs
  /\ \E k \in 1..(MaxPairs - 1) :
       potential_dissimilar_pairs[k] = potential_dissimilar_pairs[k + 1]

\* C4: every similar pair has two different valid podcast indices that one
\* person with at least 2 likes likes both, or one person with at least 2
\* dislikes dislikes both; no pair mixes a like and a dislike of its person.
C4_SimilarPairsSound ==
  \A k \in DOMAIN potential_similar_pairs :
    LET i == potential_similar_pairs[k][1]
        j == potential_similar_pairs[k][2]
    IN  /\ i # j
        /\ i \in Pods /\ j \in Pods
        /\ \E p \in 1..Len(both) :
             \/ Cardinality(LikesOf(p)) >= 2 /\ {i, j} \subseteq LikesOf(p)
             \/ Cardinality(DislikesOf(p)) >= 2 /\ {i, j} \subseteq DislikesOf(p)

C4_Witness ==
  /\ pc = "for"
  /\ Len(potential_similar_pairs) = MaxPairs
  /\ \E p \in 1..Len(both) :
       Cardinality(LikesOf(p)) >= 2 /\ DislikesOf(p) # {}
  /\ \E p \in 1..Len(both) : Cardinality(DislikesOf(p)) >= 2

\* C5: two runs with the same seed and the same configuration give the same
\* affinity matrix and the same similar and dissimilar pair lists, in order.
C5_RunsAgree ==
  (prev # <<>> /\ pc = "pairs_done") =>
    /\ normed = prev[1].normed
    /\ potential_similar_pairs = prev[1].similar
    /\ potential_dissimilar_pairs = prev[1].dissimilar

\* C6: the person the sampler chooses has at least 2 likes or at least 2
\* dislikes.
C6_ChosenQualifies == chosen_ix # None => Qualifies(chosen_ix + 1)

\* C7: a pair that get_dissimilar_pair returns is dissimilar for the person
\* chosen in that call: one of the two podcasts is neutral for that person,
\* or the two have opposite polarity.
C7_ReturnedPairDissimilar ==
  (InCall /\ ~resample) =>
    \/ ChosenPolarity(first_pod_ix) = 0
    \/ ChosenPolarity(second_pod_ix) = 0
    \/ ChosenPolarity(first_pod_ix) = -ChosenPolarity(second_pod_ix)

C7_Witness ==
  /\ InCall /\ ~resample
  /\ ChosenPolarity(second_pod_ix) # 0
  /\ \E i \in Pods : ChosenPolarity(i) = -ChosenPolarity(second_pod_ix)

\* C8: one iteration of the loop accepts the drawn pair exactly when the
\* chosen person is neutral about the first index, and resamples exactly when
\* that polarity is not 0, whatever the polarity of the second index.
C8_AcceptIffFirstNeutral ==
  [][(InCall /\ resample /\ pc' = "while") =>
       /\ (~resample') <=> (At(both[chosen_ix + 1], first_pod_ix') = 0)
       /\ resample' <=> (At(both[chosen_ix + 1], first_pod_ix') # 0)]_vars

C8_Witness ==
  /\ InCall /\ resample
  /\ first_pod_ix # None
  /\ ChosenPolarity(first_pod_ix) # 0
  /\ ChosenPolarity(second_pod_ix) = 0

\* C9, as stated: with no person of at least 2 likes or at least 2 dislikes
\* the pair construction does not complete.
C9_EmptyPoolFails == PoolEmpty => pc # "pairs_done"

\* C9, amended: with no such person there are no similar pairs, the sampler
\* is never called, no error is raised, and both pair lists stay empty.
C9_EmptyPoolCompletesEmpty ==
  PoolEmpty =>
    /\ calls = 0
    /\ pc \notin {"while", "error"}
    /\ potential_similar_pairs = <<>>
    /\ potential_dissimilar_pairs = <<>>

C9_Witness ==
  /\ PoolEmpty
  /\ pc = "pairs_done"
  /\ num_pods >= 2
  /\ \E p \in 1..Len(both) : LikesOf(p) # {} /\ DislikesOf(p) # {}

\* C10, as stated: with fewer than 2 podcasts the pair construction does not
\* complete.
C10_FewPodsFails == num_pods < 2 => pc # "pairs_done"

\* C10, amended: with fewer than 2 podcasts no draw is ever made, so no error
\* is raised, and the pair construction leaves both pair lists empty.
C10_FewPodsCompletesEmpty ==
  num_pods < 2 =>
    /\ first_pod_ix = None
    /\ pc \notin {"while", "error"}
    /\ potential_similar_pairs = <<>>
    /\ potential_dissimilar_pairs = <<>>

C10_Witness ==
  /\ num_pods < 2
  /\ pc = "pairs_done"
  /\ \E p \in 1..Len(both) : LikesOf(p) # {}


\* the similar pairs are complete and not yet shuffled
BeforeShuffle == pc \in {"for", "while", "pairs_done"}

\* the ordered pairs of two different members of S, in lexicographic order
OrderedPairs(S) == LexSeq({d \in S \X S : d[1] # d[2]})

\* the reference list of one polarity: person after person, the ordered
\* pairs of the set of that person, for the people whose set has 2 members
RECURSIVE RefFrom(_, _)
RefFrom(p, v) ==
  IF p > Len(both) THEN <<>>
  ELSE LET S == IF v = 1 THEN LikesOf(p) ELSE DislikesOf(p)
       IN  (IF Cardinality(S) >= 2 THEN OrderedPairs(S) ELSE <<>>)
             \o RefFrom(p + 1, v)

Multiplicity(ps, d) == Cardinality({k \in DOMAIN ps : ps[k] = d})

CoRaters(i, j) ==
  Cardinality({p \in 1..Len(both) : {i, j} \subseteq LikesOf(p)})
    + Cardinality({p \in 1..Len(both) : {i, j} \subseteq DislikesOf(p)})

\* C11: before the shuffle similar_pairs is the reference list: for each
\* person with at least 2 likes, in person order, every ordered pair of two
\* different liked podcasts, then the same over the dislikes; so (i, j) and
\* (j, i) occur equally often, once per person who likes both or dislikes both.
C11_SimilarIsReference ==
  BeforeShuffle =>
    /\ potential_similar_pairs = RefFrom(1, 1) \o RefFrom(1, -1)
    /\ \A i \in Pods : \A j \in Pods \ {i} :
         /\ Multiplicity(potential_similar_pairs, <<i, j>>)
              = Multiplicity(potential_similar_pairs, <<j, i>>)
         /\ Multiplicity(potential_similar_pairs, <<i, j>>) = CoRaters(i, j)

C11_Witness ==
  /\ pc = "for"
  /\ \E i \in Pods : \E j \in Pods \ {i} :
       /\ Multiplicity(potential_similar_pairs, <<i, j>>) = 2
       /\ \E p \in 1..Len(both) : {i, j} \subseteq LikesOf(p)
       /\ \E p \in 1..Len(both) : {i, j} \subseteq DislikesOf(p)

\* C13: no cell is both liked and disliked, and the polarity of a cell is +1
\* exactly when its rating is above the threshold, -1 exactly when it is below
\* minus the threshold, and 0 otherwise (a rating equal to the threshold or to
\* minus the threshold is neutral).
C13_PolarityMatchesThreshold ==
  /\ liked # NoData =>
       \A p \in DOMAIN liked : \A i \in DOMAIN liked[p] :
         ~(liked[p][i] = 1 /\ disliked[p][i] # 0)
  /\ BothReady =>
       \A p \in DOMAIN both : \A i \in DOMAIN both[p] :
         /\ both[p][i] \in {-1, 0, 1}
         /\ both[p][i] = 1 <=> normed[p][i] > threshold
         /\ both[p][i] = -1 <=> normed[p][i] < -threshold
         /\ both[p][i] = 0 <=>
              (normed[p][i] <= threshold /\ normed[p][i] >= -threshold)

C13_Witness ==
  /\ BothReady
  /\ \E p \in DOMAIN both : \E i, j \in DOMAIN both[p] :
       /\ normed[p][i] = threshold /\ both[p][i] = 0
       /\ normed[p][j] = -threshold /\ both[p][j] = 0
  /\ \E p \in DOMAIN both : \E i, j \in DOMAIN both[p] :
       both[p][i] = 1 /\ both[p][j] = -1

\* the acceptance test on the polarities of the two drawn podcasts
CorrectedAccepts(i, j) ==
  \/ ChosenPolarity(i) = 0
  \/ ChosenPolarity(j) = 0
  \/ ChosenPolarity(i) = -ChosenPolarity(j)

\* C19: whenever the test of the notebook accepts a draw, the test on the two
\* indices accepts it too; on the same draws the two differ only where the
\* notebook rejects a draw that the two-index test accepts.
C19_ReferenceRefinesCorrected ==
  [][(InCall /\ resample /\ pc' = "while") =>
       /\ (~resample') => (CorrectedAccepts(first_pod_ix, second_pod_ix))'
       /\ (~CorrectedAccepts(first_pod_ix, second_pod_ix))' => resample']_vars

C19_Witness ==
  /\ InCall /\ resample
  /\ first_pod_ix # None
  /\ CorrectedAccepts(first_pod_ix, second_pod_ix)
  /\ ChosenPolarity(first_pod_ix) = -ChosenPolarity(second_pod_ix)

\* ------------------------------------------------------------ train and test
Zipped == pc \in {"shuffle_zipped", "split", "split_done"}
SplitDone == pc = "split_done"
Entries == train \o test
Ones(ys) == Cardinality({k \in DOMAIN ys : ys[k] = 1})

\* two people each contribute the ordered pair d to the similar list
SharedPair(d) ==
  \E p, q \in 1..Len(both) :
    /\ p # q
    /\ d[1] # d[2]
    /\ {d[1], d[2]} \subseteq LikesOf(p) \/ {d[1], d[2]} \subseteq DislikesOf(p)
    /\ {d[1], d[2]} \subseteq LikesOf(q) \/ {d[1], d[2]} \subseteq DislikesOf(q)

\* C12: the set of unique similar pairs is built from the raw list and the raw
\* list is what gets label 1: once the pairs are labelled, the number of 1
\* labels is len(potential_similar_pairs); once the split is made, every pair
\* occurs with label 1 in train and test together as often as it occurs in the
\* raw list; that length is at least len(unique_similar_pairs), and larger when
\* two people contribute the same ordered pair.
C12_LabelOnesAreRawList ==
  /\ Zipped =>
       /\ unique_similar_pairs = SeqRange(potential_similar_pairs)
       /\ Ones(labels) = Len(potential_similar_pairs)
       /\ Ones(labels) >= Cardinality(unique_similar_pairs)
       /\ (\E d \in Pods \X Pods : SharedPair(d)) =>
            Ones(labels) > Cardinality(unique_similar_pairs)
  /\ SplitDone =>
       /\ Ones(train_ys) + Ones(test_ys) = Len(potential_similar_pairs)
       /\ \A d \in Pods \X Pods :
            Multiplicity(Entries, <<d, 1>>) = Multiplicity(potential_similar_pairs, d)

C12_Witness ==
  /\ SplitDone
  /\ \E d \in Pods \X Pods : SharedPair(d) /\ Multiplicity(Entries, <<d, 1>>) = 2
  /\ Ones(train_ys) + Ones(test_ys) = 4
  /\ Cardinality(unique_similar_pairs) = 2

\* total pair counts for which the size of the training part is computed
Totals == 0..(4 * MaxPairs)

\* C14: of N pairs, floor(0.75 * N) go to train and the other
\* N - floor(0.75 * N) to test, so the two sizes sum to N; 8396 pairs give
\* 6297 and 2099.
C14_SplitSizes ==
  /\ \A n \in Totals : 4 * TrainSize(n) <= 3 * n /\ 3 * n < 4 * (TrainSize(n) + 1)
  /\ TrainSize(8396) = 6297 /\ 8396 - TrainSize(8396) = 2099
  /\ SplitDone =>
       /\ train_size = (3 * Len(Xs)) \div 4
       /\ Len(train) = (3 * Len(Xs)) \div 4
       /\ Len(test) = Len(Xs) - (3 * Len(Xs)) \div 4
       /\ Len(train) + Len(test) = Len(Xs)
       /\ Len(train_Xs) = Len(train) /\ Len(train_ys) = Len(train)
       /\ Len(test_Xs) = Len(test) /\ Len(test_ys) = Len(test)

C14_Witness == SplitDone /\ Len(Xs) = 4 /\ Len(train) = 3 /\ Len(test) = 1

\* the bag of the elements of a list
SeqBag(s) == [e \in SeqRange(s) |-> Multiplicity(s, e)]
Labelled(ps, l) == [k \in DOMAIN ps |-> <<ps[k], l>>]

\* C15: the shuffles of the two pair lists keep the bag of pairs of each list,
\* and the entries of train and test together are, as a bag, every similar
\* pair with label 1 and every dissimilar pair with label 0: nothing is lost,
\* duplicated or relabelled, and train_Xs[k] keeps its label train_ys[k].
C15_ShuffleSplitPreserve ==
  [][/\ pc \in {"pairs_done", "shuffle_similar"} =>
          /\ SeqBag(potential_similar_pairs') = SeqBag(potential_similar_pairs)
          /\ SeqBag(potential_dissimilar_pairs') = SeqBag(potential_dissimilar_pairs)
     /\ pc' = "split" =>
          SeqBag(shuffled') = SeqBag(Labelled(potential_similar_pairs', 1)
                                       \o Labelled(potential_dissimilar_pairs', 0))
     /\ pc' = "split_done" =>
          /\ SeqBag(train' \o test') =
               SeqBag(Labelled(potential_similar_pairs', 1)
                        \o Labelled(potential_dissimilar_pairs', 0))
          /\ Zip(train_Xs', train_ys') = train'
          /\ Zip(test_Xs', test_ys') = test']_vars

C15_Witness ==
  /\ SplitDone
  /\ shuffled # Zip(Xs, labels)
  /\ \E k \in DOMAIN train : train[k][2] = 0
  /\ \E k \in DOMAIN test : test[k][2] = 1
  /\ Xs # RefFrom(1, 1) \o RefFrom(1, -1) \o potential_dissimilar_pairs

\* C16: no ordered pair of the test part also occurs in the training part.
C16_TestHeldOut == SplitDone => SeqRange(train_Xs) \cap SeqRange(test_Xs) = {}

InTable(d) == d[1] \in Pods /\ d[2] \in Pods

\* C17: every index of every pair of train_Xs and test_Xs, from a similar or a
\* dissimilar pair, is a row of the embedding table, 0 <= index < num_pods, and
\* the two indices of every dissimilar pair differ.
C17_IndicesInTable ==
  /\ \A k \in DOMAIN potential_dissimilar_pairs :
       /\ InTable(potential_dissimilar_pairs[k])
       /\ potential_dissimilar_pairs[k][1] # potential_dissimilar_pairs[k][2]
  /\ \A k \in DOMAIN potential_similar_pairs : InTable(potential_similar_pairs[k])
  /\ SplitDone =>
       /\ \A k \in DOMAIN train_Xs : InTable(train_Xs[k])
       /\ \A k \in DOMAIN test_Xs : InTable(test_Xs[k])
       /\ \A k \in DOMAIN Entries : Entries[k][2] = 0 => Entries[k][1][1] # Entries[k][1][2]

C17_Witness ==
  /\ SplitDone
  /\ \E k \in DOMAIN train : train[k][2] = 0 /\ train[k][1][1] = num_pods - 1
  /\ \E k \in DOMAIN test : test[k][2] = 1
  /\ \E k \in DOMAIN train_Xs : train_Xs[k][1] = 0

PairsBuilt == pc \notin {"start", "threshold", "polarity", "similar_liked", "similar_disliked"}

\* L_p * (L_p - 1) + D_p * (D_p - 1), summed over the people p..num_people
RECURSIVE SameTastePairs(_)
SameTastePairs(p) ==
  IF p > Len(both) THEN 0
  ELSE Cardinality(LikesOf(p)) * (Cardinality(LikesOf(p)) - 1)
         + Cardinality(DislikesOf(p)) * (Cardinality(DislikesOf(p)) - 1)
         + SameTastePairs(p + 1)

\* C18: the similar list has L_p * (L_p - 1) + D_p * (D_p - 1) pairs summed
\* over every person p, whether or not p passes the >= 2 filters, so its
\* length is even; the total N is twice that length and divisible by 4, and
\* the split is exact: train has 3N/4 entries and test N/4.
C18_CountsAndExactSplit ==
  /\ PairsBuilt =>
       /\ Len(potential_similar_pairs) = SameTastePairs(1)
       /\ Len(potential_similar_pairs) % 2 = 0
  /\ SplitDone =>
       /\ Len(Xs) = 2 * Len(potential_similar_pairs)
       /\ Len(Xs) % 4 = 0
       /\ 4 * Len(train) = 3 * Len(Xs)
       /\ 4 * Len(test) = Len(Xs)

C18_Witness ==
  /\ SplitDone
  /\ \A p \in 1..Len(both) : Cardinality(LikesOf(p)) = 2
  /\ Len(both) = 2
  /\ Len(potential_similar_pairs) = 4
  /\ Len(train) = 6 /\ Len(test) = 2
====
